---- MODULE Spec2Model ----
(***************************************************************************)
(* Model of main.py: a script that discovers the CSV files of ./data/ and  *)
(* loads them into one table with pandas, polars and DuckDB, once with a   *)
(* strict (same schema) load and once with a relaxed (union) load.         *)
(*                                                                         *)
(* The script's statements are the actions; a statement that raises ends   *)
(* the run (nothing in main.py catches an exception).  The library calls   *)
(* are modelled by what they do on the inputs of the model:                *)
(*   os.listdir        entry names (files and directories), any order      *)
(*   pandas   2.x      read_csv, concat(join="outer", ignore_index=True)   *)
(*   polars   1.x      scan_csv/read_csv, concat(how="diagonal_relaxed"),  *)
(*                     scan_csv over a glob (sorted paths, one schema)     *)
(*   DuckDB   >= 1.2   read_csv over a glob (sorted paths), with and       *)
(*                     without union_by_name (strict_mode needs 1.2)       *)
(* CSV cells are integers; a column of a file with no data row is read as  *)
(* text (object / String / VARCHAR).  Columns of one file are listed in    *)
(* the order of ColOrder, and every file has at least one column.          *)
(*                                                                         *)
(* Spec is a run of the script, top to bottom.  SpecLoads is an            *)
(* interactive session over the same statements: after lines 6-8 the       *)
(* sections of the file are run one at a time, in any order, an exception  *)
(* returning to the prompt.                                                *)
(***************************************************************************)
EXTENDS Integers, Sequences, FiniteSets, TLC

\* ------------------------------------------------------------------ bounds

MaxCols == 2      \* columns per file
MaxRows == 1      \* data rows per file
MaxEntries == 3   \* entries of ./data/
MaxRuns == 2      \* sections run in one session of SpecLoads

\* ------------------------------------------------------------- file system

NameA == <<"a", ".", "c", "s", "v">>
NameB == <<"b", ".", "c", "s", "v">>
NameC == <<"c", "s", "v">>

\* The entry names the directory may hold, in the order a glob returns them.
SortedNames == <<NameA, NameB, NameC>>

Range(s) == {s[i] : i \in DOMAIN s}

Names == Range(SortedNames)

ColOrder == <<"x", "y", "z">>

Cols == Range(ColOrder)

\* The integer e53 * 2^53 + r.
IntVal(e, r) == [e53 |-> e, r |-> r]

Headers ==
    {SelectSeq(ColOrder, LAMBDA c : c \in S) :
        S \in {T \in SUBSET Cols : Cardinality(T) \in 1..MaxCols}}

\* The data rows of a file: none, or up to MaxRows rows, every cell of row k
\* holding k in a file of small numbers and 2^53 + k in one of large numbers.
RowsOf(hdr) ==
    {<<>>} \cup
    {[k \in 1..n |-> [j \in 1..Len(hdr) |-> IntVal(e, k)]] :
        n \in 1..MaxRows, e \in {0, 1}}

CsvContents ==
    UNION {{[kind |-> "file", hdr |-> h, rows |-> r] : r \in RowsOf(h)} : h \in Headers}

DirContent == [kind |-> "dir", hdr |-> <<>>, rows |-> <<>>]

OtherContent == [kind |-> "file", hdr |-> <<"x">>, rows |-> <<>>]

DotCsv == <<".", "c", "s", "v">>

\* str.endswith
EndsWith(s, suffix) ==
    /\ Len(s) >= Len(suffix)
    /\ SubSeq(s, Len(s) - Len(suffix) + 1, Len(s)) = suffix

\* Sequences of distinct names, at most MaxEntries long: the directory listing.
NameSeqs ==
    {s \in UNION {[1..n -> Names] : n \in 0..MaxEntries} :
        \A i, j \in DOMAIN s : i # j => s[i] # s[j]}

\* The contents of the entries ns: any for a *.csv entry, one for the others.
ContentMaps(ns) ==
    LET csv == {n \in Range(ns) : EndsWith(n, DotCsv)}
    IN  {[n \in Range(ns) |-> IF n \in csv THEN g[n] ELSE OtherContent] :
            g \in [csv -> CsvContents \cup {DirContent}]}

AbsentDir == [exists |-> FALSE, names |-> <<>>, files |-> <<>>]

FileSystems ==
    {AbsentDir} \cup
    UNION {{[exists |-> TRUE, names |-> ns, files |-> f] : f \in ContentMaps(ns)} :
              ns \in NameSeqs}

\* --------------------------------------------------------------- outcomes

None == [none |-> TRUE]

\* What a statement evaluates to: a value, or the exception it raises.
Ok(v) == [ok |-> TRUE, kind |-> "ok", val |-> v]

Raise(k) == [ok |-> FALSE, kind |-> k, val |-> None]

NotRun == [ok |-> FALSE, kind |-> "not_run", val |-> None]

\* ------------------------------------------------------------- discovery

DataPrefix == <<"d", "a", "t", "a", "/">>

\* os.path.join("data", c)
PathJoin(c) == DataPrefix \o c

Basename(p) == SubSeq(p, Len(DataPrefix) + 1, Len(p))

\* A listing that takes an absent directory for an empty one.
OsListdirLenient(f) == Ok(f.names)

\* os.listdir("./data/")
OsListdir(f) ==
    IF f.exists THEN Ok(f.names) ELSE Raise("filesystem")

\* [os.path.join("data", c) for c in all_files if c.endswith(".csv")]
CsvFilter(all) ==
    LET keep == SelectSeq(all, LAMBDA c : EndsWith(c, DotCsv))
    IN  [i \in DOMAIN keep |-> PathJoin(keep[i])]

\* ----------------------------------------------------------------- frames

\* A table is [cols |-> sequence of [name, dt], rows |-> sequence of rows], a row
\* a function from the column names to cells.
NullCell == [null |-> TRUE, v |-> IntVal(0, 0)]

Cell(v) == [null |-> FALSE, v |-> v]

ColNames(t) == [i \in DOMAIN t.cols |-> t.cols[i].name]

ColSet(t) == {t.cols[i].name : i \in DOMAIN t.cols}

\* dtype of column c
DtOf(t, c) == t.cols[CHOOSE i \in DOMAIN t.cols : t.cols[i].name = c].dt

IndexOf(hdr, c) == CHOOSE i \in DOMAIN hdr : hdr[i] = c

\* The frame a reader parses from one file: a column with data rows holds
\* integers (intDt), a column of a header-only file holds text (emptyDt).
ReadFrame(e, emptyDt, intDt) ==
    [cols |-> [i \in DOMAIN e.hdr |->
                 [name |-> e.hdr[i], dt |-> IF e.rows = <<>> THEN emptyDt ELSE intDt]],
     rows |-> [k \in DOMAIN e.rows |->
                 [c \in Range(e.hdr) |-> Cell(e.rows[k][IndexOf(e.hdr, c)])]]]

\* Opening path p for reading: the entry, or the OSError of a path that is a
\* directory or does not exist.
OpenFile(f, p) ==
    LET n == Basename(p)
    IN  IF ~f.exists \/ n \notin Range(f.names) THEN Raise("filesystem")
        ELSE IF f.files[n].kind = "dir" THEN Raise("filesystem")
        ELSE Ok(f.files[n])

\* [read(c) for c in paths]: the frames, or the first exception raised.
ReadAll(f, paths, emptyDt, intDt) ==
    LET bad == {i \in DOMAIN paths : ~OpenFile(f, paths[i]).ok}
    IN  IF bad # {}
        THEN OpenFile(f, paths[CHOOSE i \in bad : \A j \in bad : i <= j])
        ELSE Ok([i \in DOMAIN paths |->
                    ReadFrame(OpenFile(f, paths[i]).val, emptyDt, intDt)])

\* join="inner": only the columns every frame has.
CommonNames(frames) ==
    IF frames = <<>> THEN <<>>
    ELSE SelectSeq(ColNames(frames[1]),
             LAMBDA c : \A i \in DOMAIN frames : c \in ColSet(frames[i]))

RECURSIVE UnionNames(_)
\* The column names of the frames, each once, in the order first seen.
UnionNames(frames) ==
    IF frames = <<>> THEN <<>>
    ELSE LET n == Len(frames)
             before == UnionNames(SubSeq(frames, 1, n - 1))
         IN  before \o SelectSeq(ColNames(frames[n]), LAMBDA c : c \notin Range(before))

RECURSIVE Flatten(_)
Flatten(ss) == IF ss = <<>> THEN <<>> ELSE Head(ss) \o Flatten(Tail(ss))

\* IEEE-754 binary64 of an integer: exact below 2^53, and from 2^53 on every
\* second integer, the nearer one, a tie going to the even mantissa.
RoundF64(v) ==
    IF v.e53 = 0 THEN v
    ELSE IF v.r % 2 = 0 THEN v
    ELSE IF ((v.r - 1) \div 2) % 2 = 0 THEN IntVal(v.e53, v.r - 1)
    ELSE IntVal(v.e53, v.r + 1)

\* astype / cast of one cell to dtype dt.
CastCell(cell, dt) ==
    IF cell.null THEN cell
    ELSE IF dt = "float64" THEN Cell(RoundF64(cell.v))
    ELSE cell

\* The union concatenation of the frames under the column dtypes dts (a function
\* of the column name): every frame's rows in order, cast, and a null where the
\* frame has no such column.
UnionTable(frames, dts) ==
    LET names == UnionNames(frames)
        Widen(t) == [k \in DOMAIN t.rows |->
                        [c \in Range(names) |->
                            IF c \in ColSet(t) THEN CastCell(t.rows[k][c], dts[c])
                            ELSE NullCell]]
    IN  [cols |-> [i \in DOMAIN names |-> [name |-> names[i], dt |-> dts[names[i]]]],
         rows |-> Flatten([i \in DOMAIN frames |-> Widen(frames[i])])]

\* ----------------------------------------------------------------- pandas

\* pd.read_csv(c) for c in csv_files
PdReadAll(f, paths) == ReadAll(f, paths, "object", "int64")

\* The dtype pandas gives column c of the result: frames without rows do not
\* count; integers next to a missing value become float64.
PdDtype(frames, c) ==
    LET filled == {i \in DOMAIN frames : frames[i].rows # <<>>}
    IN  IF \A i \in filled : c \notin ColSet(frames[i]) THEN "object"
        ELSE IF \E i \in filled : c \notin ColSet(frames[i]) THEN "float64"
        ELSE "int64"

\* A concat that gives an empty table for an empty list.
PdConcatOfNone(frames) ==
    Ok(UnionTable(frames, [c \in Range(UnionNames(frames)) |-> PdDtype(frames, c)]))

\* pd.concat(dfs, ignore_index=True)
PdConcat(frames) ==
    IF frames = <<>> THEN Raise("value")
    ELSE Ok(UnionTable(frames,
                [c \in Range(UnionNames(frames)) |-> PdDtype(frames, c)]))

\* ----------------------------------------------------------------- polars

\* pl.read_csv(c, has_header=True) for c in csv_files
PlReadAll(f, paths) == ReadAll(f, paths, "str", "i64")

\* pl.scan_csv(c, has_header=True) for c in csv_files: nothing is read yet.
PlScanAll(paths) == [i \in DOMAIN paths |-> [scan |-> paths[i]]]

\* The supertype of the dtypes column c has in the frames that hold it.
Supertype(frames, c, intDt, textDt) ==
    IF \A i \in DOMAIN frames : c \in ColSet(frames[i]) => DtOf(frames[i], c) = intDt
    THEN intDt ELSE textDt

\* pl.concat(dfs, how="diagonal_relaxed") of DataFrames
PlConcat(frames) ==
    IF frames = <<>> THEN Raise("value")
    ELSE Ok(UnionTable(frames,
                [c \in Range(UnionNames(frames)) |-> Supertype(frames, c, "i64", "str")]))

\* A collect of a vertical concat: the frames must have the same columns.
PlCollectVertical(f, lazy) ==
    IF lazy = <<>> THEN Raise("value")
    ELSE LET r == PlReadAll(f, [i \in DOMAIN lazy |-> lazy[i].scan])
         IN  IF ~r.ok THEN r
             ELSE IF \E i \in DOMAIN r.val : ColNames(r.val[i]) # ColNames(r.val[1])
                  THEN Raise("schema")
             ELSE PlConcat(r.val)

\* pl.concat(dfs, how="diagonal_relaxed").collect() of LazyFrames: the scans are
\* resolved when the plan is collected.
PlCollect(f, lazy) ==
    IF lazy = <<>> THEN Raise("value")
    ELSE LET r == PlReadAll(f, [i \in DOMAIN lazy |-> lazy[i].scan])
         IN  IF r.ok THEN PlConcat(r.val) ELSE r

\* The paths a glob data/*.csv expands to: the matching entries, sorted.
Glob(f) ==
    LET hit == SelectSeq(SortedNames,
                   LAMBDA n : f.exists /\ n \in Range(f.names) /\ EndsWith(n, DotCsv))
    IN  [i \in DOMAIN hit |-> PathJoin(hit[i])]

\* Only the first file is read.
StrictTableFirst(frames) == frames[1]

\* All the frames under the first frame's schema, rows in order; columns are
\* taken by name.
StrictTable(frames) ==
    LET first == frames[1]
    IN  [cols |-> first.cols,
         rows |-> Flatten([i \in DOMAIN frames |->
                    [k \in DOMAIN frames[i].rows |->
                        [c \in ColSet(first) |-> frames[i].rows[k][c]]]])]

\* A glob scan that unions the files' columns instead of insisting on one schema.
PlScanGlobRelaxed(f) ==
    LET r == PlReadAll(f, Glob(f))
    IN  IF Glob(f) = <<>> THEN Raise("no_match")
        ELSE IF ~r.ok THEN r
        ELSE PlConcat(r.val)

\* pl.scan_csv("./data/*.csv", has_header=True).collect(): one schema, the first
\* file's, for every file of the glob.
PlScanGlob(f) ==
    LET r == PlReadAll(f, Glob(f))
    IN  IF Glob(f) = <<>> THEN Raise("no_match")
        ELSE IF ~r.ok THEN r
        ELSE IF \E i \in DOMAIN r.val : ColNames(r.val[i]) # ColNames(r.val[1])
             THEN Raise("schema")
        ELSE Ok(StrictTable(r.val))

\* ----------------------------------------------------------------- DuckDB

DbReadAll(f, paths) == ReadAll(f, paths, "VARCHAR", "BIGINT")

\* SELECT * FROM read_csv('data/*.csv'): the first file's columns; a file that
\* lacks one of them is a schema mismatch, a column only a later file has is
\* not read.
DbReadGlob(f) ==
    LET r == DbReadAll(f, Glob(f))
    IN  IF Glob(f) = <<>> THEN Raise("no_match")
        ELSE IF ~r.ok THEN r
        ELSE IF \E i \in DOMAIN r.val : ~(ColSet(r.val[1]) \subseteq ColSet(r.val[i]))
             THEN Raise("schema")
        ELSE Ok(StrictTable(r.val))

\* SELECT * FROM read_csv('data/*.csv', ..., union_by_name = true, ...)
DbReadGlobUnion(f) ==
    LET r == DbReadAll(f, Glob(f))
    IN  IF Glob(f) = <<>> THEN Raise("no_match")
        ELSE IF ~r.ok THEN r
        ELSE Ok(UnionTable(r.val,
                    [c \in Range(UnionNames(r.val)) |->
                        Supertype(r.val, c, "BIGINT", "VARCHAR")]))

\* ------------------------------------------------------------------ state

VARIABLES
    fs,         \* ./data/ on disk: the listing order and each entry's content
    pc,         \* the statement to run next
    mode,       \* "script": python main.py; "session": sections run one at a time
    all_files,  \* line 7
    csv_files,  \* line 8
    dfs,        \* lines 12, 26, 29, 36: frames read, lazy scans, or one frame
    df,         \* lines 16, 33, 40
    con,        \* line 48
    err,        \* the exception that ended the run (the last one, in a session)
    out         \* what each load evaluated to

vars == <<fs, pc, mode, all_files, csv_files, dfs, df, con, err, out>>

Loads == {"pandas", "pl_strict", "pl_lazy", "pl_eager", "db_strict", "db_union"}

Unset == [kind |-> "unset", v |-> <<>>]

Bound(k, v) == [kind |-> k, v |-> v]

\* The state before line 7 (a name not yet bound is modelled empty).
Fresh ==
    /\ all_files = <<>>
    /\ csv_files = <<>>
    /\ dfs = Unset
    /\ df = None
    /\ con = "none"
    /\ err = None
    /\ out = [l \in Loads |-> NotRun]

\* python main.py
Init ==
    /\ fs \in FileSystems
    /\ pc = "listdir"
    /\ mode = "script"
    /\ Fresh

\* An interactive session: lines 6-8 are run on an existing directory of
\* *.csv entries holding small numbers, then sections of the file one at a
\* time, in any order.
InitLoads ==
    /\ fs \in {f \in FileSystems :
                 /\ f.exists
                 /\ \A n \in Range(f.names) :
                       /\ EndsWith(n, DotCsv)
                       /\ \A k \in DOMAIN f.files[n].rows :
                             \A j \in DOMAIN f.files[n].rows[k] :
                                 f.files[n].rows[k][j].e53 = 0}
    /\ pc = "listdir"
    /\ mode = "session"
    /\ Fresh

\* ------------------------------------------------------- control transfer

Ran == {l \in Loads : out[l] # NotRun}

\* A session is at the prompt and may run one more section.
Prompt == mode = "session" /\ pc = "idle" /\ Cardinality(Ran) < MaxRuns

\* Control is at statement stmt, the first of section l: the script has reached
\* it, or a session starts the section, which has not run yet.
AtSection(stmt, l) == pc = stmt \/ (Prompt /\ l \notin Ran)

\* The next statement of the same section.
Continue(next) == pc' = next

\* The section's last statement is done: the script goes on with the next
\* section, a session returns to the prompt.
Finish(next) == pc' = IF mode = "script" THEN next ELSE "idle"

\* An exception that is caught, the run going on with the relaxed polars load.
FailResume(k, at) ==
    /\ err' = [kind |-> k, at |-> at]
    /\ pc' = "pl_scan"

\* An uncaught exception of kind k at statement at: the script's run is over,
\* a session returns to the prompt.
Fail(k, at) ==
    /\ err' = [kind |-> k, at |-> at]
    /\ pc' = IF mode = "script" THEN "error" ELSE "idle"

Record(l, r) == out' = [out EXCEPT ![l] = r]

\* ------------------------------------------------ the statements' values

Stmt_listdir == OsListdir(fs)

Stmt_filter == CsvFilter(all_files)

Stmt_pd_read == PdReadAll(fs, csv_files)

Stmt_pd_concat == PdConcat(dfs.v)

Stmt_pl_strict == PlScanGlob(fs)

Stmt_pl_scan == PlScanAll(csv_files)

Stmt_pl_collect == PlCollect(fs, dfs.v)

\* The eager read skipped when dfs already holds frames.
Stmt_pl_read_stale ==
    IF dfs.kind = "frames" THEN Ok(dfs.v) ELSE PlReadAll(fs, csv_files)

Stmt_pl_read == PlReadAll(fs, csv_files)

Stmt_pl_concat == PlConcat(dfs.v)

Stmt_db_strict == DbReadGlob(fs)

Stmt_db_union == DbReadGlobUnion(fs)

\* ---------------------------------------------------------------- actions

\* line 7
ListDir ==
    LET r == Stmt_listdir
    IN
        /\ pc = "listdir"
        /\ IF r.ok
           THEN /\ all_files' = r.val
                /\ Continue("filter")
                /\ UNCHANGED err
           ELSE /\ Fail(r.kind, "listdir")
                /\ UNCHANGED all_files
        /\ UNCHANGED <<fs, mode, csv_files, dfs, df, con, out>>

\* line 8
FilterCsv ==
    LET r == Stmt_filter
    IN
        /\ pc = "filter"
        /\ csv_files' = r
        /\ Finish("pd_read")
        /\ UNCHANGED <<fs, mode, all_files, dfs, df, con, err, out>>

\* lines 12-15
PdRead ==
    LET r == Stmt_pd_read
    IN
        /\ AtSection("pd_read", "pandas")
        /\ IF r.ok
           THEN /\ dfs' = Bound("frames", r.val)
                /\ Continue("pd_concat")
                /\ UNCHANGED <<err, out>>
           ELSE /\ Fail(r.kind, "pd_read")
                /\ Record("pandas", r)
                /\ UNCHANGED dfs
        /\ UNCHANGED <<fs, mode, all_files, csv_files, df, con>>

\* line 16
PdConcatStep ==
    LET r == Stmt_pd_concat
    IN
        /\ pc = "pd_concat"
        /\ Record("pandas", r)
        /\ IF r.ok
           THEN /\ df' = r.val
                /\ Continue("pd_inspect")
                /\ UNCHANGED err
           ELSE /\ Fail(r.kind, "pd_concat")
                /\ UNCHANGED df
        /\ UNCHANGED <<fs, mode, all_files, csv_files, dfs, con>>

\* lines 19-20: df.head(); df.columns
PdInspect ==
    /\ pc = "pd_inspect"
    /\ Finish("pl_strict")
    /\ UNCHANGED <<fs, mode, all_files, csv_files, dfs, df, con, err, out>>

\* line 26
PlStrict ==
    LET r == Stmt_pl_strict
    IN
        /\ AtSection("pl_strict", "pl_strict")
        /\ Record("pl_strict", r)
        /\ IF r.ok
           THEN /\ dfs' = Bound("frame", r.val)
                /\ Finish("pl_scan")
                /\ UNCHANGED err
           ELSE /\ Fail(r.kind, "pl_strict")
                /\ UNCHANGED dfs
        /\ UNCHANGED <<fs, mode, all_files, csv_files, df, con>>

\* lines 29-32
PlScan ==
    LET r == Stmt_pl_scan
    IN
        /\ AtSection("pl_scan", "pl_lazy")
        /\ dfs' = Bound("lazy", r)
        /\ Continue("pl_collect")
        /\ UNCHANGED <<fs, mode, all_files, csv_files, df, con, err, out>>

\* line 33
PlCollectStep ==
    LET r == Stmt_pl_collect
    IN
        /\ pc = "pl_collect"
        /\ Record("pl_lazy", r)
        /\ IF r.ok
           THEN /\ df' = r.val
                /\ Finish("pl_read")
                /\ UNCHANGED err
           ELSE /\ Fail(r.kind, "pl_collect")
                /\ UNCHANGED df
        /\ UNCHANGED <<fs, mode, all_files, csv_files, dfs, con>>

\* lines 36-39
PlRead ==
    LET r == Stmt_pl_read
    IN
        /\ AtSection("pl_read", "pl_eager")
        /\ IF r.ok
           THEN /\ dfs' = Bound("frames", r.val)
                /\ Continue("pl_concat")
                /\ UNCHANGED <<err, out>>
           ELSE /\ Fail(r.kind, "pl_read")
                /\ Record("pl_eager", r)
                /\ UNCHANGED dfs
        /\ UNCHANGED <<fs, mode, all_files, csv_files, df, con>>

\* line 40
PlConcatStep ==
    LET r == Stmt_pl_concat
    IN
        /\ pc = "pl_concat"
        /\ Record("pl_eager", r)
        /\ IF r.ok
           THEN /\ df' = r.val
                /\ Continue("pl_inspect")
                /\ UNCHANGED err
           ELSE /\ Fail(r.kind, "pl_concat")
                /\ UNCHANGED df
        /\ UNCHANGED <<fs, mode, all_files, csv_files, dfs, con>>

\* lines 43-44: df.head(); df.columns
PlInspect ==
    /\ pc = "pl_inspect"
    /\ Finish("db_connect")
    /\ UNCHANGED <<fs, mode, all_files, csv_files, dfs, df, con, err, out>>

\* line 48, and on to one of the two queries: the script's next statement,
\* or in a session a query that has not run yet.
DbConnect ==
    /\ pc = "db_connect" \/ Prompt
    /\ con' = "memory"
    /\ pc' \in IF pc = "db_connect" THEN {"db_strict"}
               ELSE {"db_strict", "db_union"} \ Ran
    /\ UNCHANGED <<fs, mode, all_files, csv_files, dfs, df, err, out>>

\* lines 51-55
DbStrict ==
    LET r == Stmt_db_strict
    IN
        /\ pc = "db_strict"
        /\ con = "memory"
        /\ Record("db_strict", r)
        /\ IF r.ok
           THEN Finish("db_union") /\ UNCHANGED err
           ELSE Fail(r.kind, "db_strict")
        /\ UNCHANGED <<fs, mode, all_files, csv_files, dfs, df, con>>

\* lines 58-62
DbUnion ==
    LET r == Stmt_db_union
    IN
        /\ pc = "db_union"
        /\ con = "memory"
        /\ Record("db_union", r)
        /\ IF r.ok
           THEN Finish("done") /\ UNCHANGED err
           ELSE Fail(r.kind, "db_union")
        /\ UNCHANGED <<fs, mode, all_files, csv_files, dfs, df, con>>

Statement ==
    \/ ListDir
    \/ FilterCsv
    \/ PdRead
    \/ PdConcatStep
    \/ PdInspect
    \/ PlStrict
    \/ PlScan
    \/ PlCollectStep
    \/ PlRead
    \/ PlConcatStep
    \/ PlInspect
    \/ DbConnect
    \/ DbStrict
    \/ DbUnion

Next == Statement

Spec == Init /\ [][Next]_vars

SpecLoads == InitLoads /\ [][Next]_vars

\* ------------------------------------------------- what the claims speak of

\* The *.csv entries of the directory, in listing order.
CsvNames == SelectSeq(fs.names, LAMBDA n : EndsWith(n, DotCsv))

Entry(p) == fs.files[Basename(p)]

\* Every *.csv entry is a regular file.
AllRegular == \A n \in Range(CsvNames) : fs.files[n].kind = "file"

HeaderSet(n) == Range(fs.files[n].hdr)

\* At least two files have different column sets.
DifferingCols ==
    \E m, n \in Range(CsvNames) : HeaderSet(m) # HeaderSet(n)

\* All files have the same schema: the same columns in the same order, of the
\* same inferred types.
IdenticalSchemas ==
    /\ CsvNames # <<>>
    /\ \A m, n \in Range(CsvNames) :
          /\ fs.files[m].hdr = fs.files[n].hdr
          /\ (fs.files[m].rows = <<>>) = (fs.files[n].rows = <<>>)

AllCols == UNION {HeaderSet(n) : n \in Range(CsvNames)}

\* The order a load takes the files in.
FileOrder(l) ==
    IF l \in {"pl_strict", "db_strict", "db_union"} THEN Glob(fs) ELSE csv_files

RECURSIVE RowsBefore(_, _)
\* The number of data rows of the files before the i-th of paths.
RowsBefore(paths, i) ==
    IF i <= 1 THEN 0
    ELSE RowsBefore(paths, i - 1) + Len(Entry(paths[i - 1]).rows)

TotalRows(paths) == RowsBefore(paths, Len(paths) + 1)

\* Table t holds the files' rows grouped by file in the order of paths, each
\* file's rows in the file's order.
RowOfFile(t, paths, i, k) == t.rows[RowsBefore(paths, i) + k]

RowBag(t) ==
    [r \in Range(t.rows) |-> Cardinality({k \in DOMAIN t.rows : t.rows[k] = r})]

RelaxedLoads == {"pandas", "pl_lazy", "pl_eager", "db_union"}

\* The x,y / x,z example of the specification: two files with a data row each.
ExampleXYZ ==
    /\ Len(CsvNames) = 2
    /\ AllRegular
    /\ \E m, n \in Range(CsvNames) :
          /\ fs.files[m].hdr = <<"x", "y">> /\ fs.files[m].rows # <<>>
          /\ fs.files[n].hdr = <<"x", "z">> /\ fs.files[n].rows # <<>>

\* ------------------------------------------------------------------ claims

\* C1: for a set of CSV files whose column sets differ, every relaxed / union
\* load that is run succeeds; its table has exactly the union of the files'
\* columns and one row per data row, and a row that comes from a file without
\* column c holds null in c.
C1_RelaxedUnion ==
    (AllRegular /\ DifferingCols) =>
        \A l \in RelaxedLoads :
            out[l] # NotRun =>
                /\ out[l].ok
                /\ ColSet(out[l].val) = AllCols
                /\ Len(out[l].val.rows) = TotalRows(FileOrder(l))
                /\ \A i \in DOMAIN FileOrder(l) :
                     \A k \in DOMAIN Entry(FileOrder(l)[i]).rows :
                        \A c \in AllCols \ Range(Entry(FileOrder(l)[i]).hdr) :
                            RowOfFile(out[l].val, FileOrder(l), i, k)[c].null

\* C1 witness: on the x,y / x,z example the eager polars load and the DuckDB
\* union load have both produced their table.
C1_Witness ==
    /\ ExampleXYZ
    /\ out["pl_eager"].ok
    /\ out["db_union"].ok
    /\ pc = "idle"

\* The first file of the glob.
FirstOfGlob == Basename(Glob(fs)[1])

C3_StrictEqualsRelaxed ==
    (AllRegular /\ IdenticalSchemas /\ pc = "done") =>
        /\ out["pl_strict"].ok
        /\ out["pl_lazy"] = out["pl_strict"]
        /\ out["pl_eager"] = out["pl_strict"]
        /\ out["db_strict"].ok
        /\ out["db_union"] = out["db_strict"]

\* C3 amended: with identical schemas the run never fails, and at its end the
\* strict and the relaxed load of a backend have the same columns and the same
\* rows up to their order: identical tables for DuckDB, and for polars when the
\* directory listing is in the glob's sorted order.
C3_SameUpToRowOrder ==
    (AllRegular /\ IdenticalSchemas) =>
        /\ pc # "error"
        /\ pc = "done" =>
             /\ out["pl_strict"].ok /\ out["db_strict"].ok
             /\ \A l \in {"pl_lazy", "pl_eager"} :
                  /\ out[l].ok
                  /\ out[l].val.cols = out["pl_strict"].val.cols
                  /\ RowBag(out[l].val) = RowBag(out["pl_strict"].val)
                  /\ csv_files = Glob(fs) => out[l] = out["pl_strict"]
             /\ out["db_union"] = out["db_strict"]

\* C3 witness: a finished run over two files of one schema that the directory
\* lists in another order than the glob, with tables that differ in row order.
C3_Witness ==
    /\ pc = "done"
    /\ AllRegular /\ IdenticalSchemas
    /\ csv_files # Glob(fs)
    /\ out["pl_lazy"].val.rows # out["pl_strict"].val.rows

\* C4: after discovery csv_files holds exactly the regular files of the
\* directory whose name ends in .csv, as paths under data/, in listing order.
C4_ExactlyCsvFiles ==
    (fs.exists /\ pc \notin {"listdir", "filter"}) =>
        csv_files =
            LET keep == SelectSeq(fs.names,
                            LAMBDA n : EndsWith(n, DotCsv) /\ fs.files[n].kind = "file")
            IN  [i \in DOMAIN keep |-> PathJoin(keep[i])]

StmtOrder ==
    <<"listdir", "filter", "pd_read", "pd_concat", "pd_inspect", "pl_strict",
      "pl_scan", "pl_collect", "pl_read", "pl_concat", "pl_inspect",
      "db_connect", "db_strict", "db_union">>

\* The statement each section starts with.
SectionStart ==
    [pandas |-> "pd_read", pl_strict |-> "pl_strict", pl_lazy |-> "pl_scan",
     pl_eager |-> "pl_read", db_strict |-> "db_strict", db_union |-> "db_union"]

Pos(stmt) == CHOOSE i \in DOMAIN StmtOrder : StmtOrder[i] = stmt

\* C5: a run that raised stays at the raising statement: it is in the error
\* state, no statement is enabled, and no load that starts after that statement
\* has run; and with differing column sets the run ends at the polars strict
\* load with a schema-mismatch error, before every later load.
C5_NoRecovery ==
    /\ pc = "error" =>
         /\ err # None
         /\ ~ENABLED Next
         /\ \A l \in Loads :
              Pos(SectionStart[l]) > Pos(err.at) => out[l] = NotRun
         /\ Pos(err.at) < Pos("db_connect") => con = "none"
    /\ (AllRegular /\ DifferingCols) =>
         /\ pc \in {"listdir", "filter", "pd_read", "pd_concat", "pd_inspect",
                    "pl_strict", "error"}
         /\ pc = "error" =>
              /\ err = [kind |-> "schema", at |-> "pl_strict"]
              /\ \A l \in {"pl_lazy", "pl_eager", "db_strict", "db_union"} :
                   out[l] = NotRun

\* C5 witness: a run over files with differing column sets that ended at the
\* polars strict load, after the pandas load succeeded.
C5_Witness ==
    /\ pc = "error"
    /\ AllRegular /\ DifferingCols
    /\ err.at = "pl_strict"
    /\ out["pandas"].ok

\* What load l evaluates to in a session of its own, right after discovery.
Isolated(l) ==
    LET paths == CsvFilter(fs.names)
        Then(r, op(_)) == IF r.ok THEN op(r.val) ELSE r
    IN  CASE l = "pandas" -> Then(PdReadAll(fs, paths), PdConcat)
          [] l = "pl_strict" -> PlScanGlob(fs)
          [] l = "pl_lazy" -> PlCollect(fs, PlScanAll(paths))
          [] l = "pl_eager" -> Then(PlReadAll(fs, paths), PlConcat)
          [] l = "db_strict" -> DbReadGlob(fs)
          [] l = "db_union" -> DbReadGlobUnion(fs)

\* C6: whatever loads ran before it in the session, a load evaluates to what it
\* evaluates to in a session of its own, and the discovered file set stays what
\* discovery made it.
C6_Independent ==
    /\ pc \notin {"listdir", "filter"} => csv_files = CsvFilter(fs.names)
    /\ \A l \in Loads : out[l] # NotRun => out[l] = Isolated(l)

\* C6 witness: the eager polars load has run after the pandas load, over files
\* with differing column sets.
C6_Witness ==
    /\ pc = "idle"
    /\ AllRegular /\ DifferingCols
    /\ out["pandas"].ok
    /\ out["pl_eager"].ok
    /\ dfs.kind = "frames" /\ \E i \in DOMAIN dfs.v : \E j \in DOMAIN dfs.v[i].cols :
                                 dfs.v[i].cols[j].dt \in {"i64", "str"}

\* The directory exists and holds no entry named *.csv.
NoCsvEntry == fs.exists /\ CsvNames = <<>>

\* C7 as stated: on a directory without a .csv entry the run fails with a
\* filesystem error.
C7_EmptyIsFilesystemError ==
    (NoCsvEntry /\ pc \in {"error", "done"}) =>
        pc = "error" /\ err.kind = "filesystem"

\* C7 amended: on a directory without a .csv entry discovery succeeds with an
\* empty file list and the run fails at the pandas concatenation with a value
\* error (nothing to concatenate): no table is produced and no later load run.
C7_EmptyIsValueError ==
    NoCsvEntry =>
        /\ pc \in {"listdir", "filter", "pd_read", "pd_concat", "error"}
        /\ pc \notin {"listdir", "filter"} => csv_files = <<>>
        /\ pc = "error" =>
             /\ err = [kind |-> "value", at |-> "pd_concat"]
             /\ all_files = fs.names
             /\ df = None
             /\ out["pandas"] = Raise("value")
             /\ \A l \in Loads \ {"pandas"} : out[l] = NotRun

\* C7 witness: a run on a directory with one entry, not named *.csv, has ended.
C7_Witness ==
    /\ NoCsvEntry
    /\ fs.names # <<>>
    /\ pc = "error"

\* C8: when ./data/ is absent the run fails at the directory listing with a
\* filesystem error; no file has been read and no load attempted.
C8_AbsentDirectory ==
    ~fs.exists =>
        /\ pc \in {"listdir", "error"}
        /\ pc = "error" =>
             /\ err = [kind |-> "filesystem", at |-> "listdir"]
             /\ all_files = <<>> /\ csv_files = <<>>
             /\ dfs = Unset /\ df = None /\ con = "none"
             /\ \A l \in Loads : out[l] = NotRun

\* C8 witness: the run on an absent directory has ended.
C8_Witness == ~fs.exists /\ pc = "error"

\* C9: the table of a list-based relaxed load holds every row of every file
\* once, grouped by file in csv_files order, and every cell of a column the
\* source file has equals the source value.
C9_RowsAndValuesKept ==
    \A l \in {"pandas", "pl_lazy", "pl_eager"} :
        out[l].ok =>
            /\ Len(out[l].val.rows) = TotalRows(csv_files)
            /\ \A i \in DOMAIN csv_files :
                 \A k \in DOMAIN Entry(csv_files[i]).rows :
                    \A c \in Range(Entry(csv_files[i]).hdr) :
                        RowOfFile(out[l].val, csv_files, i, k)[c] =
                            Cell(Entry(csv_files[i]).rows[k][IndexOf(Entry(csv_files[i]).hdr, c)])

====
